---- MODULE Spec2Model ----
(***************************************************************************)
(* gpsavg: reads a log of NMEA sentences, parses the $GPGGA fixes into     *)
(* (lat, lon, alt) positions, computes mean and sample standard deviation, *)
(* builds one histogram per axis, removes the 3-sigma outliers and         *)
(* recomputes the statistics of what is left.                              *)
(*                                                                         *)
(* Representation of f64.  A text is a sequence of one-character strings.  *)
(* A parsed number is held in tenths (fixed point, one fractional digit);  *)
(* the sample lines carry at most one fractional digit, so the value is    *)
(* exact.  A latitude/longitude "deg + min / 60" is held in units of       *)
(* 1/600 degree (deg * 60 + min, both in tenths), an altitude in tenths of *)
(* a metre.  A mean is the fraction num/den; a standard deviation is held  *)
(* by its square, the fraction num/den; a fraction with den = 0 is the NaN *)
(* that 0.0/0.0 gives.  Comparisons against avg + (p/q) * std_dev are      *)
(* decided exactly over the reals (no rounding), and are false on a NaN.   *)
(*                                                                         *)
(* The input file is a sequence of named sample lines (Text gives the      *)
(* characters of each); short and overflow_checks are the -s flag and the  *)
(* build's overflow checking, fixed for a run.                             *)
(***************************************************************************)
EXTENDS Integers, Sequences, FiniteSets, TLC

VARIABLES file, short, overflow_checks, pc, line_num, positions, error,
          avg, std_dev, hist, histogram_val,
          positions_filtered, avg_filtered, std_dev_filtered, report

vars == <<file, short, overflow_checks, pc, line_num, positions, error,
          avg, std_dev, hist, histogram_val,
          positions_filtered, avg_filtered, std_dev_filtered, report>>

-----------------------------------------------------------------------------
(* Texts *)

Digits == <<"0", "1", "2", "3", "4", "5", "6", "7", "8", "9">>

IsDigit(c) == \E d \in 1..10 : Digits[d] = c

DigitVal(c) == (CHOOSE d \in 1..10 : Digits[d] = c) - 1

\* line.split(','): the fields between the commas, at least one field.
RECURSIVE SplitFrom(_, _, _)
SplitFrom(line, i, cur) ==
    IF i > Len(line) THEN <<cur>>
    ELSE IF line[i] = "," THEN <<cur>> \o SplitFrom(line, i + 1, <<>>)
    ELSE SplitFrom(line, i + 1, Append(cur, line[i]))

Split(line) == SplitFrom(line, 1, <<>>)

\* The value of a run of digits, read left to right.
RECURSIVE DigitsValue(_, _)
DigitsValue(s, acc) ==
    IF s = <<>> THEN acc
    ELSE DigitsValue(Tail(s), acc * 10 + DigitVal(Head(s)))

DotAt(s) == IF \E i \in 1..Len(s) : s[i] = "."
            THEN CHOOSE i \in 1..Len(s) : s[i] = "."
            ELSE Len(s) + 1

Magnitude(int, frac) ==
    IF /\ \A i \in 1..Len(int) : IsDigit(int[i])
       /\ \A i \in 1..Len(frac) : IsDigit(frac[i])
       /\ Len(int) + Len(frac) >= 1
    THEN [ok |-> TRUE,
          val |-> DigitsValue(int, 0) * 10
                    + (IF frac = <<>> THEN 0 ELSE DigitVal(frac[1]))]
    ELSE [ok |-> FALSE, val |-> 0]

Unsigned(body, dot) ==
    Magnitude(SubSeq(body, 1, dot - 1), SubSeq(body, dot + 1, Len(body)))

Negated(r) == [ok |-> r.ok, val |-> 0 - r.val]

\* str::parse::<f64>() on the decimal grammar: an optional sign, digits with
\* at most one '.', at least one digit.  Anything else is an Err.  The value
\* is in tenths.
ParseF64(s) ==
    IF s # <<>> /\ s[1] = "-" THEN Negated(Unsigned(Tail(s), DotAt(Tail(s))))
    ELSE IF s # <<>> /\ s[1] = "+" THEN Unsigned(Tail(s), DotAt(Tail(s)))
    ELSE Unsigned(s, DotAt(s))

-----------------------------------------------------------------------------
(* parse_line *)

GPGGA == <<"$", "G", "P", "G", "G", "A">>

FieldCount == 14

DegWidthLat == 2

DegWidthLon == 3

\* The closure of lines 208-213 / 222-227: split_at(width) panics on a field
\* shorter than width; each half is parsed as a number.
\* The minutes added without the division by 60.
DegPlusMin_NoSixty(deg, min) ==
    IF ~deg.ok \/ ~min.ok THEN [tag |-> "Err"]
    ELSE [tag |-> "Ok", val |-> deg.val * 60 + min.val * 60]

DegPlusMin(deg, min) ==
    IF ~deg.ok \/ ~min.ok THEN [tag |-> "Err"]
    ELSE [tag |-> "Ok", val |-> deg.val * 60 + min.val]

DegMin(field, width) ==
    IF Len(field) < width THEN [tag |-> "Panic"]
    ELSE DegPlusMin(ParseF64(SubSeq(field, 1, width)),
                    ParseF64(SubSeq(field, width + 1, Len(field))))

\* Lines 238-263: the hemisphere letters decide the signs.
Signed(lat, ns, lon, ew, ele) ==
    IF ns \notin {<<"N">>, <<"S">>}
    THEN [tag |-> "Err", msg |-> "Invalid N/S indicator"]
    ELSE IF ew \notin {<<"E">>, <<"W">>}
    THEN [tag |-> "Err", msg |-> "Invalid E/W indicator"]
    ELSE [tag |-> "Some",
          pos |-> << IF ns = <<"N">> THEN lat ELSE 0 - lat,
                     IF ew = <<"E">> THEN lon ELSE 0 - lon,
                     ele >>]

\* Lines 208-236: latitude, longitude and altitude, in that order; the first
\* failure ends the parse.
Numbers(lat, ns, lon, ew, ele) ==
    IF lat.tag = "Panic" THEN [tag |-> "Panic"]
    ELSE IF lat.tag = "Err"
    THEN [tag |-> "Err", msg |-> "Failed to parse latitude"]
    ELSE IF lon.tag = "Panic" THEN [tag |-> "Panic"]
    ELSE IF lon.tag = "Err"
    THEN [tag |-> "Err", msg |-> "Failed to parse longitude"]
    ELSE IF ~ele.ok
    THEN [tag |-> "Err", msg |-> "invalid float literal"]
    ELSE Signed(lat.val, ns, lon.val, ew, ele.val)

\* Lines 200-206: the fields after the identifier must be exactly 14.
Params(params) ==
    IF Len(params) # FieldCount
    THEN [tag |-> "Err", msg |-> "Invalid GPGGA message length"]
    ELSE Numbers(DegMin(params[2], DegWidthLat), params[3],
                 DegMin(params[4], DegWidthLon), params[5],
                 ParseF64(params[9]))

\* The default arm reporting an error instead of skipping the line.
Match_UnknownIsError(fields) ==
    IF fields[1] = GPGGA THEN Params(Tail(fields))
    ELSE [tag |-> "Err", msg |-> "Unknown sentence"]

Match(fields) ==
    IF fields[1] = GPGGA THEN Params(Tail(fields)) ELSE [tag |-> "None"]

parse_line(line) == Match(Split(line))

-----------------------------------------------------------------------------
(* Statistics (lines 54-62 and 108-117) *)

Axes == 1..3

RECURSIVE SumAxis(_, _)
SumAxis(ps, a) ==
    IF ps = <<>> THEN 0 ELSE ps[1][a] + SumAxis(Tail(ps), a)

\* Sum over ps of (n * r - S)^2: n^2 times the sum of squared deviations.
RECURSIVE SumSqDev(_, _, _, _)
SumSqDev(ps, a, n, S) ==
    IF ps = <<>> THEN 0
    ELSE (n * ps[1][a] - S) * (n * ps[1][a] - S) + SumSqDev(Tail(ps), a, n, S)

\* sum / n as f64: the fraction num/den; 0.0 / 0.0 is NaN (den = 0).
Mean(ps) ==
    [a \in Axes |-> [num |-> SumAxis(ps, a), den |-> Len(ps)]]

\* (sum((r - avg)^2) / (n - 1) as f64).powf(0.5), held as the square of
\* n * std_dev: the fraction num/den.  n = 1 gives 0.0 / 0.0, NaN (den = 0).
\* n = 0 with wrapping arithmetic gives 0.0 / (2^64 - 1) = 0, held as 0/1.
StdDev(ps) ==
    LET n == Len(ps)
    IN  [a \in Axes |->
            IF n = 0 THEN [num |-> 0, den |-> 1]
            ELSE [num |-> SumSqDev(ps, a, n, SumAxis(ps, a)), den |-> n - 1]]

IsNaN(f) == f.den = 0

\* n - 1 on usize underflows for n = 0: a panic when the build checks
\* overflow (debug profile, overflow_checks), a wrap to 2^64 - 1 when it does
\* not (release).
Underflows(n) == n = 0

\* v < (p / q) * std_dev + avg, for q > 0; false when a side is NaN.
Below(v, p, q, m, s) ==
    IF IsNaN(m) \/ IsNaN(s) THEN FALSE
    ELSE LET d  == v * m.den - m.num
             l  == d * d * q * q * s.den
             r  == p * p * s.num
         IN  IF p >= 0 THEN d < 0 \/ l < r
                       ELSE d < 0 /\ l > r

\* v > (p / q) * std_dev + avg, for q > 0; false when a side is NaN.
Above(v, p, q, m, s) ==
    IF IsNaN(m) \/ IsNaN(s) THEN FALSE
    ELSE LET d  == v * m.den - m.num
             l  == d * d * q * q * s.den
             r  == p * p * s.num
         IN  IF p <= 0 THEN d > 0 \/ l < r
                       ELSE d > 0 /\ l > r

-----------------------------------------------------------------------------
(* histogram (lines 269-313) *)

HistCutoff == 3

Div == 6

\* (-(cutoff * div)..(cutoff * div)).map(..).enumerate(): entry idx (from 0)
\* holds the boundary (i / div) * std_dev + avg, kept as its numerator i.
Range ==
    [k \in 1..(2 * HistCutoff * Div) |->
        [idx |-> k - 1, val |-> k - 1 - HistCutoff * Div]]

\* position_set.sort_by(axis): a stable sort.  The values compared are
\* parsed decimals, never NaN, so partial_cmp always answers.
RECURSIVE InsertSorted(_, _, _)
InsertSorted(sorted, pos, a) ==
    IF sorted = <<>> THEN <<pos>>
    ELSE IF pos[a] < sorted[1][a] THEN <<pos>> \o sorted
    ELSE <<sorted[1]>> \o InsertSorted(Tail(sorted), pos, a)

RECURSIVE SortBy(_, _)
SortBy(ps, a) ==
    IF ps = <<>> THEN <<>>
    ELSE InsertSorted(SortBy(SubSeq(ps, 1, Len(ps) - 1), a), ps[Len(ps)], a)

\* zip(range, range.skip(1)): one interval per pair of neighbours.
DivisionValues ==
    [j \in 1..(Len(Range) - 1) |-> <<Range[j].val, Range[j + 1].val>>]

\* The loop of lines 297-306: the cursor cur into range only moves forward;
\* a position is tagged with the index of the first boundary above it, and
\* gets no tag once the range is used up.
RECURSIVE Walk(_, _, _, _, _, _)
Walk(sorted, k, cur, a, m, s) ==
    IF k > Len(sorted) THEN <<>>
    ELSE IF cur > Len(Range) THEN Walk(sorted, k + 1, cur, a, m, s)
    ELSE IF Below(sorted[k][a], Range[cur].val, Div, m, s)
         THEN <<[idx |-> Range[cur].idx, pos |-> sorted[k]]>>
                  \o Walk(sorted, k + 1, cur, a, m, s)
    ELSE Walk(sorted, k, cur + 1, a, m, s)

\* .filter(|(i, _)| *i != 0)
DropLowerBound(tagged) == SelectSeq(tagged, LAMBDA e : e.idx # 0)

histogram(ps, a, m, s) ==
    [histogram       |-> DropLowerBound(Walk(SortBy(ps, a), 1, 1, a, m[a], s[a])),
     division_values |-> DivisionValues]

\* Lines 68-91: vec![0; division_val.len()], then histogram_val[idx] += 1
\* for every tag; an idx outside the vector is an index-out-of-bounds panic.
CountPanics(h) ==
    \E e \in 1..Len(h.histogram) :
        h.histogram[e].idx >= Len(h.division_values)

CountBins(h) ==
    [j \in 1..Len(h.division_values) |->
        Cardinality({e \in 1..Len(h.histogram) : h.histogram[e].idx = j - 1})]

-----------------------------------------------------------------------------
(* The outlier filter (lines 93-106) *)

FilterCutoff == 3

\* The band taken with its bounds included.
Keeps_NonStrict(pos, m, s) ==
    \A a \in Axes :
        /\ ~Below(pos[a], 0 - FilterCutoff, 1, m[a], s[a])
        /\ ~Above(pos[a], FilterCutoff, 1, m[a], s[a])

Keeps(pos, m, s) ==
    \A a \in Axes :
        /\ Above(pos[a], 0 - FilterCutoff, 1, m[a], s[a])
        /\ Below(pos[a], FilterCutoff, 1, m[a], s[a])

FilterPositions(ps, m, s) == SelectSeq(ps, LAMBDA pos : Keeps(pos, m, s))

-----------------------------------------------------------------------------
(* Input files *)

RECURSIVE Join(_)
Join(fields) ==
    IF Len(fields) = 1 THEN fields[1]
    ELSE fields[1] \o <<",">> \o Join(Tail(fields))

\* A fix sentence: identifier, time, lat, N/S, lon, E/W, quality, satellites,
\* hdop, altitude, unit, geoid separation, unit, age, checksum.
Sentence(lat, ns, lon, ew, alt) ==
    Join(<<GPGGA, <<"1">>, lat, ns, lon, ew, <<"1">>, <<"8">>,
           <<"0", ".", "9">>, alt, <<"M">>, <<"4">>, <<"M">>, <<>>, <<"*">>>>)

Lat10 == <<"0", "0", "0", "1", ".", "0">>
Lon20 == <<"0", "0", "0", "0", "2", ".", "0">>

LineA == Sentence(Lat10, <<"N">>, Lon20, <<"E">>, <<"0", ".", "5">>)
LineB == Sentence(<<"0", "0", "0", "1", ".", "4">>, <<"N">>,
                  <<"0", "0", "0", "0", "2", ".", "6">>, <<"E">>,
                  <<"0", ".", "8">>)
LineC == Sentence(<<"0", "0", "0", "3", ".", "0">>, <<"N">>,
                  <<"0", "0", "0", "0", "5", ".", "0">>, <<"E">>, <<"2">>)
LineSW == Sentence(Lat10, <<"S">>, Lon20, <<"W">>, <<"-", "0", ".", "5">>)
LineDeg == Sentence(<<"0", "1", "0", "1", ".", "5">>, <<"N">>,
                    <<"0", "0", "1", "0", "2", ".", "5">>, <<"W">>,
                    <<"1", "2">>)

LineOther == <<"$", "G", "P", "G", "S", "V", ",", "1">>
LineEmpty == <<>>

LineFewFields == Join(<<GPGGA, <<"1">>, Lat10, <<"N">>>>)
LineBadLat    == Sentence(<<"0", "0", "x", "1">>, <<"N">>, Lon20, <<"E">>, <<"5">>)
LineLatNoMin  == Sentence(<<"0", "0">>, <<"N">>, Lon20, <<"E">>, <<"5">>)
LineBadAlt    == Sentence(Lat10, <<"N">>, Lon20, <<"E">>, <<"x">>)
LineBadNS     == Sentence(Lat10, <<"X">>, Lon20, <<"E">>, <<"5">>)
LineBadEW     == Sentence(Lat10, <<"N">>, Lon20, <<"X">>, <<"5">>)
LineShortLat  == Sentence(<<"4">>, <<"N">>, Lon20, <<"E">>, <<"5">>)
LineShortLon  == Sentence(Lat10, <<"N">>, <<"0", "2">>, <<"E">>, <<"5">>)
LineNoFix     == Sentence(<<>>, <<>>, <<>>, <<>>, <<>>)
LineNoLon     == Sentence(Lat10, <<"N">>, <<>>, <<"E">>, <<"5">>)
LineNoAlt     == Sentence(Lat10, <<"N">>, Lon20, <<"E">>, <<>>)

\* The sample lines by name; a file is a sequence of names.
Text ==
    [fix_a |-> LineA, fix_b |-> LineB, fix_far |-> LineC, fix_sw |-> LineSW,
     fix_deg |-> LineDeg, other_sentence |-> LineOther, empty |-> LineEmpty,
     few_fields |-> LineFewFields, bad_lat |-> LineBadLat,
     lat_no_minutes |-> LineLatNoMin, bad_alt |-> LineBadAlt,
     bad_ns |-> LineBadNS, bad_ew |-> LineBadEW, short_lat |-> LineShortLat,
     short_lon |-> LineShortLon, no_fix |-> LineNoFix, no_lon |-> LineNoLon,
     no_alt |-> LineNoAlt]

GoodLines == {"fix_a", "fix_b", "fix_far", "fix_sw", "fix_deg"}

OtherLines == {"other_sentence", "empty"}

MalformedLines ==
    {"few_fields", "bad_lat", "lat_no_minutes", "bad_alt", "bad_ns", "bad_ew",
     "short_lat", "short_lon"}

NoFixLines == {"no_fix", "no_lon", "no_alt"}

SampleLines == DOMAIN Text

MaxLines == 2

MaxCluster == 10

SeqsUpTo(S, n) == UNION {[1..k -> S] : k \in 0..n}

Repeat(x, k) == [i \in 1..k |-> x]

\* Every file of at most MaxLines sample lines.
ShortFiles == SeqsUpTo(SampleLines, MaxLines)

\* A cluster of identical fixes, with at most one other fix before it and at
\* most one after it.
ClusterFiles ==
    {pre \o Repeat("fix_a", k) \o post :
        pre \in SeqsUpTo({"fix_far"}, 1), k \in 1..MaxCluster,
        post \in SeqsUpTo({"fix_b", "fix_far"}, 2)}

Files == ShortFiles \cup ClusterFiles

-----------------------------------------------------------------------------
(* main *)

NoStats == [a \in Axes |-> [num |-> 0, den |-> 0]]

Init ==
    /\ file \in Files
    /\ short \in BOOLEAN
    /\ overflow_checks \in BOOLEAN
    /\ pc = "read"
    /\ line_num = 0
    /\ positions = <<>>
    /\ error = [kind |-> "none"]
    /\ avg = NoStats
    /\ std_dev = NoStats
    /\ hist = <<>>
    /\ histogram_val = <<>>
    /\ positions_filtered = <<>>
    /\ avg_filtered = NoStats
    /\ std_dev_filtered = NoStats
    /\ report = <<>>

\* Lines 37-52: one step of the lines().enumerate().map().filter_map()
\* pipeline that collect() drives; the first Err ends the collection.
ReadLine ==
    /\ pc = "read"
    /\ line_num < Len(file)
    /\ LET res == parse_line(Text[file[line_num + 1]])
       IN  /\ line_num' = line_num + 1
           /\ CASE res.tag = "Some" ->
                     /\ positions' = Append(positions, res.pos)
                     /\ UNCHANGED <<pc, error>>
                [] res.tag = "None" ->
                     UNCHANGED <<positions, pc, error>>
                [] res.tag = "Err" ->
                     /\ pc' = "error"
                     /\ error' = [kind |-> "parse", line |-> line_num + 1,
                                  msg |-> res.msg]
                     /\ UNCHANGED positions
                [] res.tag = "Panic" ->
                     /\ pc' = "panic"
                     /\ error' = [kind |-> "panic",
                                  msg |-> "byte index is out of bounds"]
                     /\ UNCHANGED positions
    /\ UNCHANGED <<file, short, overflow_checks, avg, std_dev, hist,
                   histogram_val, positions_filtered, avg_filtered,
                   std_dev_filtered, report>>

\* Lines 54-62, once collect() has seen the end of the input.
Statistics ==
    /\ pc = "read"
    /\ line_num = Len(file)
    /\ IF Underflows(Len(positions)) /\ overflow_checks
       THEN /\ pc' = "panic"
            /\ error' = [kind |-> "panic",
                         msg |-> "attempt to subtract with overflow"]
            /\ UNCHANGED <<avg, std_dev>>
       ELSE /\ pc' = "histogram"
            /\ avg' = Mean(positions)
            /\ std_dev' = StdDev(positions)
            /\ UNCHANGED error
    /\ UNCHANGED <<file, short, overflow_checks, line_num, positions, hist,
                   histogram_val, positions_filtered, avg_filtered,
                   std_dev_filtered, report>>

\* Lines 64-66.
Histogram ==
    /\ pc = "histogram"
    /\ hist' = [a \in Axes |-> histogram(positions, a, avg, std_dev)]
    /\ pc' = "count"
    /\ UNCHANGED <<file, short, overflow_checks, line_num, positions, error,
                   avg, std_dev, histogram_val, positions_filtered,
                   avg_filtered, std_dev_filtered, report>>

\* Lines 68-91.
Count ==
    /\ pc = "count"
    /\ IF \E a \in Axes : CountPanics(hist[a])
       THEN /\ pc' = "panic"
            /\ error' = [kind |-> "panic", msg |-> "index out of bounds"]
            /\ UNCHANGED histogram_val
       ELSE /\ pc' = "filter"
            /\ histogram_val' = [a \in Axes |-> CountBins(hist[a])]
            /\ UNCHANGED error
    /\ UNCHANGED <<file, short, overflow_checks, line_num, positions, avg,
                   std_dev, hist, positions_filtered, avg_filtered,
                   std_dev_filtered, report>>

\* Lines 93-106.
Filter ==
    /\ pc = "filter"
    /\ positions_filtered' = FilterPositions(positions, avg, std_dev)
    /\ pc' = "stats_filtered"
    /\ UNCHANGED <<file, short, overflow_checks, line_num, positions, error,
                   avg, std_dev, hist, histogram_val, avg_filtered,
                   std_dev_filtered, report>>

\* Lines 108-117.
FilteredStatistics ==
    /\ pc = "stats_filtered"
    /\ IF Underflows(Len(positions_filtered)) /\ overflow_checks
       THEN /\ pc' = "panic"
            /\ error' = [kind |-> "panic",
                         msg |-> "attempt to subtract with overflow"]
            /\ UNCHANGED <<avg_filtered, std_dev_filtered>>
       ELSE /\ pc' = "report"
            /\ avg_filtered' = Mean(positions_filtered)
            /\ std_dev_filtered' = StdDev(positions_filtered)
            /\ UNCHANGED error
    /\ UNCHANGED <<file, short, overflow_checks, line_num, positions, avg,
                   std_dev, hist, histogram_val, positions_filtered, report>>

\* Lines 160-176: the zip of the three interval lists and the three count
\* vectors, one row per index.
Rows ==
    [i \in 1..Len(histogram_val[1]) |->
        [interval |-> [a \in Axes |-> hist[a].division_values[i]],
         count    |-> [a \in Axes |-> histogram_val[a][i]]]]

\* Lines 131-189.  The conversion of the standard deviation to metres
\* (geodetic2enu, lines 118-129) is a call into a library and is left out.
Report ==
    /\ pc = "report"
    /\ report' = IF short
                 THEN <<[average |-> avg_filtered]>>
                 ELSE <<[average    |-> avg_filtered,
                         n          |-> Len(positions),
                         n_filtered |-> Len(positions_filtered),
                         std_dev    |-> std_dev_filtered,
                         rows       |-> Rows]>>
    /\ pc' = "done"
    /\ UNCHANGED <<file, short, overflow_checks, line_num, positions, error,
                   avg, std_dev, hist, histogram_val, positions_filtered,
                   avg_filtered, std_dev_filtered>>

Next ==
    \/ ReadLine
    \/ Statistics
    \/ Histogram
    \/ Count
    \/ Filter
    \/ FilteredStatistics
    \/ Report

Spec == Init /\ [][Next]_vars

-----------------------------------------------------------------------------
(* Properties *)

\* The sample lines whose first comma-separated field is the identifier.
RecognizedLines == {l \in SampleLines : Split(Text[l])[1] = GPGGA}

Recognized(line) == line \in RecognizedLines

\* What parse_line returns for each sample line.
Parsed == [l \in SampleLines |-> parse_line(Text[l])]

\* The run was ended by the line just read.
AbortedByLine(k) ==
    /\ line_num = k
    /\ \/ error.kind = "parse"
       \/ error.kind = "panic" /\ error.msg = "byte index is out of bounds"

ParseAborted == line_num >= 1 /\ AbortedByLine(line_num)

\* collect() has returned the position list.
Collected == pc # "read" /\ ~ParseAborted

RecognizedSoFar == SelectSeq(SubSeq(file, 1, line_num), Recognized)

\* C1: a line whose first comma-separated field is not $GPGGA parses to
\* None and never ends the run; as long as no line is in error the position
\* list holds exactly one position per recognized line read, in input order.
C1_UnrecognizedLinesSkipped ==
    /\ \A k \in 1..line_num :
          ~Recognized(file[k]) =>
              Parsed[file[k]].tag = "None" /\ ~AbortedByLine(k)
    /\ ~ParseAborted =>
          /\ Len(positions) = Len(RecognizedSoFar)
          /\ \A k \in 1..Len(positions) :
                Parsed[RecognizedSoFar[k]] =
                    [tag |-> "Some", pos |-> positions[k]]

\* A whole file with recognized and other lines mixed has been collected.
C1_Witness ==
    /\ Collected
    /\ Len(file) >= 2
    /\ Len(positions) = 1
    /\ \E k \in 1..Len(file) : ~Recognized(file[k])

\* C2: a recognized but malformed line (wrong field count, a coordinate or
\* altitude that is no number or is shorter than the degrees prefix, a bad
\* hemisphere letter) makes parse_line return Err and ends the run at once in
\* an error naming the 1-based line number, with nothing produced after it.
C2_MalformedLineIsError ==
    \A k \in 1..line_num :
        file[k] \in MalformedLines =>
            /\ Parsed[file[k]].tag = "Err"
            /\ pc = "error"
            /\ error.kind = "parse"
            /\ error.line = k
            /\ line_num = k
            /\ report = <<>>

\* C3: a recognized sentence with the expected field count whose latitude,
\* longitude or altitude is empty parses to None and does not end the run.
C3_NoFixIsSkipped ==
    \A k \in 1..line_num :
        file[k] \in NoFixLines =>
            Parsed[file[k]].tag = "None" /\ ~AbortedByLine(k)

FirstPassDone == Collected

SecondPassDone ==
    \/ pc \in {"report", "done"}
    \/ /\ pc = "panic"
       /\ error.msg = "attempt to subtract with overflow"
       /\ positions # <<>>

\* C4: statistics over an empty position set (pass 1 of an input without
\* positions, pass 2 of a filtered set left empty) end the run in a defined
\* statistics error: no division by zero, no underflow of n - 1, no NaN mean.
C4_EmptySetIsStatisticsError ==
    /\ FirstPassDone /\ positions = <<>> =>
          pc = "error" /\ error.kind = "statistics"
    /\ SecondPassDone /\ positions_filtered = <<>> =>
          pc = "error" /\ error.kind = "statistics"

\* C5: with exactly one parsed position the pipeline signals the n = 1 case
\* (standard deviation 0, or an explicit error) and no step panics; the
\* single position is still there when the second pass runs.
C5_SinglePositionIsDefined ==
    FirstPassDone /\ Len(positions) = 1 =>
        /\ pc # "panic"
        /\ \/ pc = "error" /\ error.kind = "statistics"
           \/ /\ \A a \in Axes : std_dev[a].num = 0 /\ std_dev[a].den > 0
              /\ pc \in {"stats_filtered", "report", "done"} =>
                    positions_filtered = positions

\* |p - mean| < 3 * stddev on axis a, over the whole set ps, by squares.
InBand(p, ps, a) ==
    LET n == Len(ps)
        S == SumAxis(ps, a)
    IN  /\ n >= 2
        /\ (n * p[a] - S) * (n * p[a] - S) * (n - 1)
              < 9 * SumSqDev(ps, a, n, S)

Filtered == pc \in {"stats_filtered", "report", "done"} \/ SecondPassDone

\* C6: the filter keeps, in their order, exactly the positions strictly
\* inside mean +- 3 stddev of the unfiltered set on all three axes, and the
\* reported mean and standard deviation are those of the kept positions.
C6_FilterKeepsStrictBand ==
    /\ Filtered =>
          positions_filtered =
              SelectSeq(positions,
                        LAMBDA p : \A a \in Axes : InBand(p, positions, a))
    /\ pc \in {"report", "done"} =>
          /\ avg_filtered = Mean(positions_filtered)
          /\ std_dev_filtered = StdDev(positions_filtered)
    /\ pc = "done" => report[1].average = Mean(positions_filtered)

\* An outlier was removed and the rest kept.
C6_Witness ==
    /\ pc = "done"
    /\ positions_filtered # <<>>
    /\ Len(positions_filtered) < Len(positions)

\* boundary lo <= v < boundary hi on one axis.
InInterval(v, lo, hi, m, s) ==
    /\ ~IsNaN(m) /\ ~IsNaN(s)
    /\ ~Below(v, lo, Div, m, s)
    /\ Below(v, hi, Div, m, s)

\* C7: the count on report row i, shown next to the interval
\* (boundary[i], boundary[i+1]), is the number of positions whose axis value
\* lies in that interval.
C7_RowCountMatchesInterval ==
    pc = "done" /\ ~short =>
        \A i \in 1..Len(report[1].rows) : \A a \in Axes :
            report[1].rows[i].count[a] =
                Cardinality({k \in 1..Len(positions) :
                    InInterval(positions[k][a],
                               report[1].rows[i].interval[a][1],
                               report[1].rows[i].interval[a][2],
                               avg[a], std_dev[a])})

RECURSIVE SumSeq(_)
SumSeq(q) == IF q = <<>> THEN 0 ELSE q[1] + SumSeq(Tail(q))

\* C8: per axis the bin counts add up to the number of positions at or
\* above the first boundary; values at or above the last boundary are
\* counted, not dropped.
C8_CountsCoverAllAboveFirst ==
    pc \in {"filter", "stats_filtered", "report", "done"} =>
        \A a \in Axes :
            SumSeq(histogram_val[a]) =
                Cardinality({k \in 1..Len(positions) :
                    /\ ~IsNaN(avg[a]) /\ ~IsNaN(std_dev[a])
                    /\ ~Below(positions[k][a], Range[1].val, Div,
                              avg[a], std_dev[a])})

Num(text) == ParseF64(text).val

\* degrees + minutes / 60 with the hemisphere's sign, in units of 1/600
\* degree, and the altitude in tenths, read off the fields of the line.
DecodedLine(line) ==
    LET f   == Split(line)
        lat == Num(SubSeq(f[3], 1, 2)) * 60 + Num(SubSeq(f[3], 3, Len(f[3])))
        lon == Num(SubSeq(f[5], 1, 3)) * 60 + Num(SubSeq(f[5], 4, Len(f[5])))
    IN  << IF f[4] = <<"S">> THEN 0 - lat ELSE lat,
           IF f[6] = <<"W">> THEN 0 - lon ELSE lon,
           Num(f[1 + 9]) >>

Decoded == [l \in GoodLines |-> DecodedLine(Text[l])]

\* C9: a well-formed sentence decodes to latitude = first 2 characters as
\* degrees + rest as minutes / 60, longitude = first 3 characters as degrees
\* + rest as minutes / 60, negated for S resp. W, and altitude = the 9th
\* field after the identifier.
C9_DecodesDegreesMinutes ==
    ~ParseAborted =>
        \A k \in 1..line_num :
            file[k] \in GoodLines =>
                LET at == Len(SelectSeq(SubSeq(file, 1, k), Recognized))
                IN  at <= Len(positions) /\ positions[at] = Decoded[file[k]]

\* A southern/western fix and a fix with non-zero degrees were both decoded.
C9_Witness ==
    /\ Collected
    /\ Len(positions) = 2
    /\ file = <<"fix_sw", "fix_deg">>

\* C10: with at least two positions every bin index histogram emits is a
\* valid index into the interval list returned with it.
C10_BinIndexInRange ==
    pc = "count" /\ Len(positions) >= 2 =>
        \A a \in Axes : \A e \in 1..Len(hist[a].histogram) :
            /\ hist[a].histogram[e].idx >= 0
            /\ hist[a].histogram[e].idx < Len(hist[a].division_values)

====
